---- MODULE Spec2Model ----
(***************************************************************************)
(* Model of the Windows-Collector acquisition pipeline: Collect and        *)
(* getFiles (collector.go), GetVolumeHandler, isLetter and                 *)
(* identifyVolumesOfInterest (volume.go).                                  *)
(*                                                                         *)
(* Strings are sequences of one-character strings, so that ToLower, the    *)
(* regular expression [^:]+ and fmt.Sprintf("%s__$mft") are computed and   *)
(* not assumed.  The alphabet is ASCII: one character is one byte.         *)
(***************************************************************************)
EXTENDS Integers, Sequences, FiniteSets, TLC

VARIABLES
    opts,                  \* main: opts.DataTypesToCollect, the gather string
    exportList,            \* Collect: the ListOfFilesToExport argument (resolveEnv writes it)
    pc,                    \* position of the Collect/getFiles goroutine
    err,                   \* Collect: the named result err
    volumesOfInterest,     \* Collect: result of identifyVolumesOfInterest
    vi,                    \* Collect: index of the range loop over volumesOfInterest
    searchTerms,           \* Collect: the slice returned by setupSearchTerms (backing array)
    listOfSearchKeywords,  \* getFiles: its own slice header over the same backing array
    areWeCopyingTheMFT,    \* getFiles: local flag
    foundFiles,            \* getFiles: result of confirmFoundFiles
    fileIdx,               \* getFiles: index of the range loop over foundFiles
    walkPos,               \* getFiles: MFT chunks read so far by findPossibleMatches
    handleOpen,            \* volume letters whose *os.File handle is open
    getHandleCalls,        \* GetVolumeHandler calls in order: the letter and what came of it
    calls                  \* one record per getFiles call: channel, WaitGroup, pipe, consumer

vars == <<opts, exportList, pc, err, volumesOfInterest, vi, searchTerms,
          listOfSearchKeywords, areWeCopyingTheMFT, foundFiles, fileIdx,
          walkPos, handleOpen, getHandleCalls, calls>>

----------------------------------------------------------------------------
(* Bounds *)

\* longest export list handed to Collect
MaxReqs == 2
\* most files confirmFoundFiles returns for one volume
MaxFiles == 2
\* length of the MFT run list, in read chunks
MftChunks == 2

\* capacity of the fileReaders channel
QueueCap == 100

----------------------------------------------------------------------------
(* Strings *)

\* strings.ToLower on one character
LowerChar(ch) ==
    CASE ch = "C" -> "c"
      [] ch = "D" -> "d"
      [] ch = "M" -> "m"
      [] ch = "F" -> "f"
      [] ch = "T" -> "t"
      [] ch = "A" -> "a"
      [] OTHER -> ch

ToLower(s) == [i \in 1..Len(s) |-> LowerChar(s[i])]

\* unicode.IsLetter on one character of the alphabet
IsLetterChar(ch) == ch \in {"C", "c", "D", "d", "M", "m", "F", "f", "T", "t", "A", "a", "b"}

RECURSIVE DropColons(_)
DropColons(s) ==
    IF s = <<>> THEN <<>>
    ELSE IF Head(s) = ":" THEN DropColons(Tail(s)) ELSE s

RECURSIVE TakeNonColons(_)
TakeNonColons(s) ==
    IF s = <<>> THEN <<>>
    ELSE IF Head(s) = ":" THEN <<>> ELSE <<Head(s)>> \o TakeNonColons(Tail(s))

\* regexp.MustCompile(`[^:]+`).FindString(s): the leftmost longest run of
\* characters other than ':', or "" when there is none
FindString(s) == TakeNonColons(DropColons(s))

\* the value of %SYSTEMDRIVE%
SystemDrive == <<"C", ":">>

\* registry.ExpandString when it succeeds: every environment reference is
\* replaced by the variable's value
RECURSIVE ExpandString(_)
ExpandString(s) ==
    IF s = <<>> THEN <<>>
    ELSE IF Head(s) = "%SYSTEMDRIVE%" THEN SystemDrive \o ExpandString(Tail(s))
    ELSE <<Head(s)>> \o ExpandString(Tail(s))

MftName == <<"$", "m", "f", "t">>

----------------------------------------------------------------------------
(* Errors *)

Nil == [op |-> "nil", arg |-> <<>>, cause |-> "nil"]

Errorf(op, arg, cause) == [op |-> op, arg |-> arg, cause |-> cause]

----------------------------------------------------------------------------
(* volume.go *)

\* isLetter: [result, err]
isLetter(s) ==
    IF s = <<>> THEN [result |-> FALSE, err |-> "null string"]
    ELSE IF Len(s) > 1 THEN [result |-> FALSE, err |-> "too many letters"]
    ELSE [result |-> IsLetterChar(s[1]), err |-> "nil"]

\* the volume of one request: re.FindString(strings.ToLower(FullPath))
VolumeOf_NoLower(fullPath) == FindString(fullPath)

VolumeOf(fullPath) == FindString(ToLower(fullPath))

IsTracked_Never(volumes, volume) == FALSE

\* the isTracked loop
IsTracked(volumes, volume) == \E i \in 1..Len(volumes) : volumes[i] = volume

\* identifyVolumesOfInterest, the loop from request i on, with the volumes
\* tracked so far: [volumesOfInterest, err]
RECURSIVE IdentifyFrom(_, _, _)
IdentifyFrom(list, i, volumes) ==
    IF i > Len(list) THEN [volumesOfInterest |-> volumes, err |-> Nil]
    ELSE LET volume == VolumeOf(list[i].FullPath)
             r      == isLetter(volume)
         IN  IF r.err # "nil"
             THEN [volumesOfInterest |-> <<>>,
                   err |-> Errorf("isLetter", volume, r.err)]
             ELSE IF ~r.result
             THEN [volumesOfInterest |-> <<>>,
                   err |-> Errorf("isLetter", list[i].FullPath, "not a letter")]
             ELSE IF IsTracked(volumes, volume)
             THEN IdentifyFrom(list, i + 1, volumes)
             ELSE IdentifyFrom(list, i + 1, Append(volumes, volume))

identifyVolumesOfInterest(list) == IdentifyFrom(list, 1, <<>>)

----------------------------------------------------------------------------
(* Search terms *)

\* a file name pattern regexp.Compile rejects
BadPattern == <<"(">>

\* setupSearchTerms: one term per request, matching on lower-cased text
setupSearchTermsFails(list) ==
    \E i \in 1..Len(list) : list[i].IsFileNameRegex /\ list[i].FileName = BadPattern

setupSearchTerms(list) ==
    [i \in 1..Len(list) |->
        [fullPathString |-> ToLower(list[i].FullPath),
         fileNameString |-> ToLower(list[i].FileName)]]

----------------------------------------------------------------------------
(* Inputs *)

Req(path, name, isRegex) ==
    [FullPath |-> path, FileName |-> name, IsFileNameRegex |-> isRegex]

ReqCMft == Req(<<"C", ":", "\\", "$", "M", "F", "T">>, <<"$", "M", "F", "T">>, FALSE)

ReqA == Req(<<"c", ":", "\\", "A">>, <<"A">>, FALSE)

Requests ==
    { ReqCMft,
      ReqA,
      Req(<<"D", ":", "\\", "b">>, <<"b">>, FALSE),
      Req(<<"%SYSTEMDRIVE%", "\\", "b">>, <<"b">>, FALSE),
      Req(<<":", "c">>, <<"b">>, FALSE),
      Req(<<"1", ":", "\\", "b">>, <<"b">>, FALSE),
      Req(<<"c", "d", ":", "\\", "b">>, <<"b">>, FALSE),
      Req(<<>>, <<"b">>, FALSE),
      Req(<<"c", ":", "\\", "(">>, BadPattern, TRUE) }

ExportLists == UNION { [1..n -> Requests] : n \in 1..MaxReqs }

\* the name of the n-th file of a volume
FileNames == <<"1", "2", "3", "4">>

\* the files confirmFoundFiles can return for one volume.  Nothing in
\* getFiles looks inside a path, so the lists are taken up to renaming of
\* the files: n distinct paths, n up to MaxFiles.
FileName(i) == IF i <= Len(FileNames) THEN FileNames[i] ELSE ToString(i)

FilesOn(letter, n) == [i \in 1..n |-> letter \o <<":", "\\", FileName(i)>>]

FoundFileLists(letter) == { FilesOn(letter, n) : n \in 0..MaxFiles }

----------------------------------------------------------------------------
(* Collect, lines 27-45 *)

\* Collect called as a library function, without the command line of main
NoOpts == <<>>

Init ==
    /\ opts = NoOpts
    /\ exportList \in ExportLists
    /\ pc = "resolveEnv"
    /\ err = Nil
    /\ volumesOfInterest = <<>>
    /\ vi = 0
    /\ searchTerms = <<>>
    /\ listOfSearchKeywords = <<>>
    /\ areWeCopyingTheMFT = FALSE
    /\ foundFiles = <<>>
    /\ fileIdx = 0
    /\ walkPos = 0
    /\ handleOpen = {}
    /\ getHandleCalls = <<>>
    /\ calls = <<>>

\* resolveEnv expands the requests in order and stops at the first failure;
\* k is the request ExpandString fails for (0: none).  The failed request's
\* FullPath is overwritten with the empty string ExpandString returns.
ResolveEnv ==
    /\ pc = "resolveEnv"
    /\ \E k \in 0..Len(exportList) :
        /\ exportList' =
             [i \in 1..Len(exportList) |->
                IF k = 0 \/ i < k
                THEN [exportList[i] EXCEPT !.FullPath = ExpandString(@)]
                ELSE IF i = k THEN [exportList[i] EXCEPT !.FullPath = <<>>]
                ELSE exportList[i]]
        /\ IF k = 0
           THEN /\ pc' = "identify"
                /\ err' = Nil
           ELSE /\ pc' = "returned"
                /\ err' = Errorf("resolveEnv", <<>>, "ExpandString")
    /\ UNCHANGED <<opts, volumesOfInterest, vi, searchTerms, listOfSearchKeywords,
                   areWeCopyingTheMFT, foundFiles, fileIdx, walkPos,
                   handleOpen, getHandleCalls, calls>>

IdentifyVolumes ==
    /\ pc = "identify"
    /\ LET r == identifyVolumesOfInterest(exportList)
       IN  IF r.err # Nil
           THEN /\ err' = Errorf("identifyVolumesOfInterest", r.err.arg, r.err.cause)
                /\ volumesOfInterest' = <<>>
                /\ pc' = "returned"
           ELSE /\ err' = Nil
                /\ volumesOfInterest' = r.volumesOfInterest
                /\ pc' = "setupSearchTerms"
    /\ UNCHANGED <<opts, exportList, vi, searchTerms, listOfSearchKeywords,
                   areWeCopyingTheMFT, foundFiles, fileIdx, walkPos,
                   handleOpen, getHandleCalls, calls>>

SetupSearchTerms ==
    /\ pc = "setupSearchTerms"
    /\ IF setupSearchTermsFails(exportList)
       THEN /\ err' = Errorf("setupSearchTerms", <<>>, "regexp")
            /\ searchTerms' = <<>>
            /\ vi' = vi
            /\ pc' = "returned"
       ELSE /\ err' = Nil
            /\ searchTerms' = setupSearchTerms(exportList)
            /\ vi' = 1
            /\ pc' = "loop"
    /\ UNCHANGED <<opts, exportList, volumesOfInterest, listOfSearchKeywords,
                   areWeCopyingTheMFT, foundFiles, fileIdx, walkPos,
                   handleOpen, getHandleCalls, calls>>

----------------------------------------------------------------------------
(* Collect, lines 47-62: the loop over volumesOfInterest *)

\* what GetVolumeHandler can do for one letter: succeed, or fail in
\* GetHandle, in Handle.Read or in RawVolumeBootRecord.Parse
VolumeOutcomes == {"ok", "GetHandle", "Read", "Parse"}

PcAfterGetVolumeHandler_Ignored(outcome) == "getFiles"

\* lines 50-53: an error of GetVolumeHandler ends Collect
PcAfterGetVolumeHandler(outcome) == IF outcome = "ok" THEN "getFiles" ELSE "returned"

\* GetVolumeHandler(volumeLetter, injectedHandlerDependency) and the error
\* check after it.  The handle is open from a successful GetHandle on.
GetVolumeHandler ==
    /\ pc = "loop"
    /\ vi <= Len(volumesOfInterest)
    /\ LET volumeLetter == volumesOfInterest[vi]
       IN  \E outcome \in VolumeOutcomes :
            /\ getHandleCalls' = Append(getHandleCalls,
                    [volumeLetter |-> volumeLetter, outcome |-> outcome])
            /\ handleOpen' = IF outcome = "GetHandle" THEN handleOpen
                             ELSE handleOpen \cup {volumeLetter}
            /\ err' = IF outcome = "ok" THEN Nil
                      ELSE Errorf("GetVolumeHandler", volumeLetter, outcome)
            /\ pc' = PcAfterGetVolumeHandler(outcome)
    /\ UNCHANGED <<opts, exportList, volumesOfInterest, vi, searchTerms,
                   listOfSearchKeywords, areWeCopyingTheMFT, foundFiles,
                   fileIdx, walkPos, calls>>

\* line 61: the loop is over, Collect returns the last err (nil)
CollectReturn ==
    /\ pc = "loop"
    /\ vi > Len(volumesOfInterest)
    /\ pc' = "returned"
    /\ UNCHANGED <<opts, exportList, err, volumesOfInterest, vi, searchTerms,
                   listOfSearchKeywords, areWeCopyingTheMFT, foundFiles,
                   fileIdx, walkPos, handleOpen, getHandleCalls, calls>>

----------------------------------------------------------------------------
(* getFiles, lines 64-163 *)

NoEntry == [fullPath |-> <<>>, reader |-> "none"]

\* the state one getFiles call creates: the channel fileReaders, the
\* WaitGroup waitForFileCopying, the io.Pipe and the consumer goroutine
NewCall(letter) ==
    [volume     |-> letter,
     fileReaders |-> <<>>,     \* buffered entries of the channel
     closed     |-> FALSE,     \* close(fileReaders) happened
     waitForFileCopying |-> 1, \* WaitGroup counter after Add(1)
     consumer   |-> "idle",    \* the ResultWriter goroutine: idle, copying, done
     cur        |-> NoEntry,   \* the entry the consumer is copying
     enqueued   |-> <<>>,      \* every entry sent on the channel, in order
     written    |-> <<>>,      \* every entry the consumer finished, in order
     apiCalls   |-> <<>>,      \* every apiFileReader call: file and outcome
     pipeBuf    |-> 0,         \* chunk a blocked pipeWriter.Write is offering
     pipeClosed |-> FALSE,     \* pipeWriter.Close happened
     pipeCloses |-> 0,         \* number of pipeWriter.Close calls
     treeIn     |-> <<>>,      \* MFT chunks read into the tree builder's buffer
     pipeOut    |-> <<>>,      \* MFT chunks the consumer read from the pipe
     seekFailed |-> FALSE,     \* the Seek of line 80 returned an error
     reported   |-> {}]        \* operations whose failure was written to the log

cur == Len(calls)

\* lines 66-69: make the channel, Add(1), start the consumer
GetFilesStart ==
    /\ pc = "getFiles"
    /\ calls' = Append(calls, NewCall(volumesOfInterest[vi]))
    /\ pc' = "parseMFTRecord0"
    /\ listOfSearchKeywords' = searchTerms
    /\ areWeCopyingTheMFT' = FALSE
    /\ foundFiles' = <<>>
    /\ fileIdx' = 0
    /\ walkPos' = 0
    /\ UNCHANGED <<opts, exportList, err, volumesOfInterest, vi, searchTerms,
                   handleOpen, getHandleCalls>>

\* lines 72-81: parse MFT record 0; on failure getFiles returns at once and
\* Collect wraps the error and returns.  Otherwise the handle seeks back to
\* the MFT offset; both results of Seek are assigned to the blank
\* identifier and line 81 logs the same message whatever Seek returned.
ParseMFTRecord0 ==
    /\ pc = "parseMFTRecord0"
    /\ \E ok \in BOOLEAN :
        IF ok
        THEN /\ pc' = "removeMft"
             /\ err' = Nil
             /\ \E seekOk \in BOOLEAN :
                    calls' = [calls EXCEPT ![cur].seekFailed = ~seekOk]
        ELSE /\ pc' = "returned"
             /\ err' = Errorf("getFiles", volumesOfInterest[vi], "parseMFTRecord0")
             /\ calls' = calls
    /\ UNCHANGED <<opts, exportList, volumesOfInterest, vi, searchTerms,
                   listOfSearchKeywords, areWeCopyingTheMFT, foundFiles,
                   fileIdx, walkPos, handleOpen, getHandleCalls>>

IsMftTerm(term) == term.fileNameString = MftName

\* index of the first term the loop of line 96 stops at, 0 when none
FirstMft(terms) ==
    IF \E i \in 1..Len(terms) : IsMftTerm(terms[i])
    THEN CHOOSE i \in 1..Len(terms) :
            /\ IsMftTerm(terms[i])
            /\ \A j \in 1..(i - 1) : ~IsMftTerm(terms[j])
    ELSE 0

\* lines 96-106: at the first "$mft" term the last element is copied over it
\* in the shared backing array, the local slice is cut by one, and the loop
\* breaks
RemoveMft ==
    /\ pc = "removeMft"
    /\ LET index == FirstMft(listOfSearchKeywords)
           n     == Len(listOfSearchKeywords)
       IN  IF index = 0
           THEN /\ areWeCopyingTheMFT' = FALSE
                /\ UNCHANGED <<searchTerms, listOfSearchKeywords>>
                /\ pc' = "walk"
           ELSE /\ areWeCopyingTheMFT' = TRUE
                /\ searchTerms' = [searchTerms EXCEPT ![index] = searchTerms[n]]
                /\ listOfSearchKeywords' = SubSeq(searchTerms', 1, n - 1)
                /\ pc' = "tee"
    /\ UNCHANGED <<opts, exportList, err, volumesOfInterest, vi, foundFiles,
                   fileIdx, walkPos, handleOpen, getHandleCalls, calls>>

\* line 113: fmt.Sprintf("%s__$mft", volumeHandler.VolumeLetter)
MftEntryName(letter) == letter \o <<"_", "_">> \o MftName

CanSend_Unbounded(buffered) == TRUE

\* line 66, make(chan fileReader, 100): a send completes only while fewer
\* than QueueCap entries are buffered
CanSend(buffered) == buffered < QueueCap

\* a completed send on the channel
Send(c, entry) ==
    [calls EXCEPT ![c].fileReaders = Append(@, entry),
                  ![c].enqueued = Append(@, entry)]

\* lines 110-117: create the pipe and the tee, enqueue the MFT entry
EnqueueMft ==
    /\ pc = "tee"
    /\ CanSend(Len(calls[cur].fileReaders))
    /\ calls' = Send(cur, [fullPath |-> MftEntryName(calls[cur].volume),
                           reader |-> "pipe"])
    /\ pc' = "walk"
    /\ UNCHANGED <<opts, exportList, err, volumesOfInterest, vi, searchTerms,
                   listOfSearchKeywords, areWeCopyingTheMFT, foundFiles,
                   fileIdx, walkPos, handleOpen, getHandleCalls>>

\* a pipeWriter.Write returns only when the reader has taken the chunk
PipeIdle == calls[cur].pipeBuf = 0

TeeInstalled_Never(copying) == FALSE

\* lines 111 and 117 against line 129: volumeHandler.mftReader is the tee
\* when the MFT is copied, the raw reader otherwise
TeeInstalled(copying) == copying

\* findPossibleMatches reads the next chunk of the MFT from
\* volumeHandler.mftReader: the raw reader fills the builder's buffer with
\* chunk walkPos + 1, and the tee then writes the same chunk to the pipe
WalkRead ==
    /\ pc = "walk"
    /\ walkPos < MftChunks
    /\ PipeIdle
    /\ walkPos' = walkPos + 1
    /\ calls' = IF TeeInstalled(areWeCopyingTheMFT)
                THEN [calls EXCEPT ![cur].treeIn = Append(@, walkPos + 1),
                                   ![cur].pipeBuf = walkPos + 1]
                ELSE [calls EXCEPT ![cur].treeIn = Append(@, walkPos + 1)]
    /\ UNCHANGED <<opts, exportList, pc, err, volumesOfInterest, vi, searchTerms,
                   listOfSearchKeywords, areWeCopyingTheMFT, foundFiles,
                   fileIdx, handleOpen, getHandleCalls>>

\* lines 119-122 and 131-134: findPossibleMatches fails; getFiles returns
\* without closing the pipe or the channel
WalkFail ==
    /\ pc = "walk"
    /\ PipeIdle
    /\ pc' = "returned"
    /\ err' = Errorf("getFiles", <<>>, "findPossibleMatches")
    /\ UNCHANGED <<opts, exportList, volumesOfInterest, vi, searchTerms,
                   listOfSearchKeywords, areWeCopyingTheMFT, foundFiles,
                   fileIdx, walkPos, handleOpen, getHandleCalls, calls>>

\* findPossibleMatches returns without error after the whole MFT was read
WalkDone ==
    /\ pc = "walk"
    /\ walkPos = MftChunks
    /\ PipeIdle
    /\ pc' = IF areWeCopyingTheMFT THEN "closePipe" ELSE "confirm"
    /\ UNCHANGED <<opts, exportList, err, volumesOfInterest, vi, searchTerms,
                   listOfSearchKeywords, areWeCopyingTheMFT, foundFiles,
                   fileIdx, walkPos, handleOpen, getHandleCalls, calls>>

\* line 123 left out: the pipe stays open
ClosePipe_Skipped ==
    /\ pc = "closePipe"
    /\ pc' = "confirm"
    /\ UNCHANGED <<opts, exportList, err, volumesOfInterest, vi, searchTerms,
                   listOfSearchKeywords, areWeCopyingTheMFT, foundFiles,
                   fileIdx, walkPos, handleOpen, getHandleCalls, calls>>

\* line 123: pipeWriter.Close()
ClosePipe ==
    /\ pc = "closePipe"
    /\ calls' = [calls EXCEPT ![cur].pipeClosed = TRUE,
                              ![cur].pipeCloses = @ + 1]
    /\ pc' = "confirm"
    /\ UNCHANGED <<opts, exportList, err, volumesOfInterest, vi, searchTerms,
                   listOfSearchKeywords, areWeCopyingTheMFT, foundFiles,
                   fileIdx, walkPos, handleOpen, getHandleCalls>>

\* line 137: confirmFoundFiles returns one of the lists
ConfirmFoundFilesFrom(lists) ==
    /\ pc = "confirm"
    /\ foundFiles' \in lists
    /\ fileIdx' = 1
    /\ pc' = "fileLoop"
    /\ UNCHANGED <<opts, exportList, err, volumesOfInterest, vi, searchTerms,
                   listOfSearchKeywords, areWeCopyingTheMFT, walkPos,
                   handleOpen, getHandleCalls, calls>>

\* line 137: confirmFoundFiles returns the confirmed files of this volume
ConfirmFoundFiles == ConfirmFoundFilesFrom(FoundFileLists(calls[cur].volume))

LoopDone_OffByOne(idx, files) == idx >= Len(files)

\* the range loop of line 143 is over
LoopDone(idx, files) == idx > Len(files)

ChooseReader_Inverted(apiFailed) == IF apiFailed THEN "api" ELSE "raw"

\* lines 145-152: the raw reader replaces the API reader when apiFileReader
\* returned an error
ChooseReader(apiFailed) == IF apiFailed THEN "raw" ELSE "api"

\* lines 143-158, one iteration: apiFileReader with one of the given
\* outcomes, the fallback and its log line 147, the send
EnqueueFileWith(outcomes) ==
    /\ pc = "fileLoop"
    /\ ~LoopDone(fileIdx, foundFiles)
    /\ CanSend(Len(calls[cur].fileReaders))
    /\ \E apiFailed \in outcomes :
        LET file  == foundFiles[fileIdx]
            entry == [fullPath |-> file, reader |-> ChooseReader(apiFailed)]
        IN  calls' = [Send(cur, entry) EXCEPT
                        ![cur].apiCalls = Append(@, [file |-> file, failed |-> apiFailed]),
                        ![cur].reported = IF apiFailed THEN @ \cup {"apiFileReader"} ELSE @]
    /\ fileIdx' = fileIdx + 1
    /\ UNCHANGED <<opts, exportList, pc, err, volumesOfInterest, vi, searchTerms,
                   listOfSearchKeywords, areWeCopyingTheMFT, foundFiles,
                   walkPos, handleOpen, getHandleCalls>>

\* lines 143-158, one iteration, apiFileReader succeeding or failing
EnqueueFile == EnqueueFileWith(BOOLEAN)

\* lines 159-160: close(fileReaders); err = nil
CloseQueue ==
    /\ pc = "fileLoop"
    /\ LoopDone(fileIdx, foundFiles)
    /\ calls' = [calls EXCEPT ![cur].closed = TRUE]
    /\ err' = Nil
    /\ pc' = "wait"
    /\ UNCHANGED <<opts, exportList, volumesOfInterest, vi, searchTerms,
                   listOfSearchKeywords, areWeCopyingTheMFT, foundFiles,
                   fileIdx, walkPos, handleOpen, getHandleCalls>>

WaitReturns_NoWait(counter) == TRUE

\* sync.WaitGroup.Wait returns when the counter is zero
WaitReturns(counter) == counter = 0

\* lines 161-162 and 56-60: Wait, return nil, next volume
WaitAndReturn ==
    /\ pc = "wait"
    /\ WaitReturns(calls[cur].waitForFileCopying)
    /\ vi' = vi + 1
    /\ pc' = "loop"
    /\ UNCHANGED <<opts, exportList, err, volumesOfInterest, searchTerms,
                   listOfSearchKeywords, areWeCopyingTheMFT, foundFiles,
                   fileIdx, walkPos, handleOpen, getHandleCalls, calls>>

----------------------------------------------------------------------------
(* The consumer goroutine resultWriter.ResultWriter of call c *)

\* receive the next entry from the channel
ConsumerReceive(c) ==
    /\ calls[c].consumer = "idle"
    /\ calls[c].fileReaders # <<>>
    /\ calls' = [calls EXCEPT ![c].cur = Head(calls[c].fileReaders),
                              ![c].fileReaders = Tail(@),
                              ![c].consumer = "copying"]
    /\ UNCHANGED <<opts, exportList, pc, err, volumesOfInterest, vi, searchTerms,
                   listOfSearchKeywords, areWeCopyingTheMFT, foundFiles,
                   fileIdx, walkPos, handleOpen, getHandleCalls>>

\* read one chunk from the pipe: this lets the blocked Write return
ConsumerReadPipe(c) ==
    /\ calls[c].consumer = "copying"
    /\ calls[c].cur.reader = "pipe"
    /\ calls[c].pipeBuf # 0
    /\ calls' = [calls EXCEPT ![c].pipeOut = Append(@, calls[c].pipeBuf),
                              ![c].pipeBuf = 0]
    /\ UNCHANGED <<opts, exportList, pc, err, volumesOfInterest, vi, searchTerms,
                   listOfSearchKeywords, areWeCopyingTheMFT, foundFiles,
                   fileIdx, walkPos, handleOpen, getHandleCalls>>

\* the stream of the current entry is at its end: the entry is written
ConsumerFinishEntry(c) ==
    /\ calls[c].consumer = "copying"
    /\ calls[c].cur.reader = "pipe" => (calls[c].pipeBuf = 0 /\ calls[c].pipeClosed)
    /\ calls' = [calls EXCEPT ![c].written = Append(@, calls[c].cur),
                              ![c].cur = NoEntry,
                              ![c].consumer = "idle"]
    /\ UNCHANGED <<opts, exportList, pc, err, volumesOfInterest, vi, searchTerms,
                   listOfSearchKeywords, areWeCopyingTheMFT, foundFiles,
                   fileIdx, walkPos, handleOpen, getHandleCalls>>

\* the channel is closed and drained: waitForFileCopying.Done()
ConsumerDone(c) ==
    /\ calls[c].consumer = "idle"
    /\ calls[c].fileReaders = <<>>
    /\ calls[c].closed
    /\ calls' = [calls EXCEPT ![c].consumer = "done",
                              ![c].waitForFileCopying = @ - 1]
    /\ UNCHANGED <<opts, exportList, pc, err, volumesOfInterest, vi, searchTerms,
                   listOfSearchKeywords, areWeCopyingTheMFT, foundFiles,
                   fileIdx, walkPos, handleOpen, getHandleCalls>>

----------------------------------------------------------------------------

Next ==
    \/ ResolveEnv
    \/ IdentifyVolumes
    \/ SetupSearchTerms
    \/ GetVolumeHandler
    \/ CollectReturn
    \/ GetFilesStart
    \/ ParseMFTRecord0
    \/ RemoveMft
    \/ EnqueueMft
    \/ WalkRead
    \/ WalkFail
    \/ WalkDone
    \/ ClosePipe
    \/ ConfirmFoundFiles
    \/ EnqueueFile
    \/ CloseQueue
    \/ WaitAndReturn
    \/ \E c \in 1..Len(calls) : ConsumerReceive(c)
    \/ \E c \in 1..Len(calls) : ConsumerReadPipe(c)
    \/ \E c \in 1..Len(calls) : ConsumerFinishEntry(c)
    \/ \E c \in 1..Len(calls) : ConsumerDone(c)

Spec == Init /\ [][Next]_vars

----------------------------------------------------------------------------
(* Properties *)

Returned == pc = "returned"

CallIds == 1..Len(calls)

IsFileEntry(e) == e.reader # "pipe"

IsMftEntry(e) == e.reader = "pipe"

\* the confirmed-file entries of a call, in the order they were enqueued
FileEntries(c) == SelectSeq(calls[c].enqueued, IsFileEntry)

MftEntries(c) == SelectSeq(calls[c].enqueued, IsMftEntry)

Paths(entries) == [i \in 1..Len(entries) |-> entries[i].fullPath]

\* C1: when Collect has returned, nil or an error, the consumer of every
\* getFiles call it made has signalled completion.
BarrierOnEveryExit ==
    Returned => \A c \in CallIds : calls[c].consumer = "done"

\* C2: when Collect has returned, every volume handle it obtained is closed.
VolumeHandlesClosedOnReturn ==
    Returned => handleOpen = {}

\* C3: while the enqueue loop runs, the file entries enqueued so far are the
\* paths of the confirmed files handled so far, in list order; the queue is
\* closed only when every confirmed file (and the MFT entry, if requested)
\* has been enqueued exactly once; nothing is enqueued after the close.
EachConfirmedFileEnqueuedOnce ==
    [][\A c \in CallIds :
        /\ (pc = "fileLoop" /\ c = cur) =>
              Paths(FileEntries(c)) = SubSeq(foundFiles, 1, fileIdx - 1)
        /\ (~calls[c].closed /\ calls'[c].closed) =>
              /\ c = cur
              /\ Paths(FileEntries(c)) = foundFiles
              /\ Len(MftEntries(c)) = IF areWeCopyingTheMFT THEN 1 ELSE 0
        /\ calls[c].closed => calls'[c].enqueued = calls[c].enqueued]_vars

QueueClosedAfterMftAndTwoFiles ==
    /\ calls # <<>>
    /\ calls[cur].closed
    /\ Len(calls[cur].enqueued) = 3
    /\ Len(MftEntries(cur)) = 1
    /\ Len(foundFiles) = 2

\* the entries the consumer of call c has taken from the channel, in order
Received(c) ==
    calls[c].written \o (IF calls[c].cur = NoEntry THEN <<>> ELSE <<calls[c].cur>>)

\* C4: within a volume the consumer receives the entries in the order they
\* were enqueued; when an entry of a later volume is enqueued, the consumer
\* of every earlier volume has finished all of that volume's entries.
SinkOrdering ==
    \A c \in CallIds :
        /\ Received(c) \o calls[c].fileReaders = calls[c].enqueued
        /\ \A d \in CallIds :
              (c < d /\ calls[d].enqueued # <<>>) =>
                  /\ calls[c].consumer = "done"
                  /\ calls[c].written = calls[c].enqueued

TwoVolumesWrittenInOrder ==
    /\ Returned
    /\ err = Nil
    /\ Len(calls) = 2
    /\ Len(calls[1].written) >= 2
    /\ Len(calls[2].written) >= 2

\* C5: the term list handed to findPossibleMatches and confirmFoundFiles
\* holds no term whose file name is "$mft".
NoMftTermPassedToWalk ==
    pc \in {"walk", "confirm"} =>
        \A i \in 1..Len(listOfSearchKeywords) : ~IsMftTerm(listOfSearchKeywords[i])

MftSuffix == <<"_", "_", "$", "m", "f", "t">>

\* C6 as stated: for the single request {C:\$MFT, $MFT} the MFT export entry
\* is named "C__$mft".
MftEntryNamedUpperC ==
    exportList = <<ReqCMft>> =>
        \A c \in CallIds : \A i \in 1..Len(MftEntries(c)) :
            MftEntries(c)[i].fullPath = <<"C">> \o MftSuffix

\* C6 amended: for the single request {C:\$MFT, $MFT} the MFT export entry
\* is named "c__$mft": the lower-cased volume letter, as Collect passes it
\* to GetVolumeHandler, followed by "__$mft".
MftEntryNamedLowerC ==
    exportList = <<ReqCMft>> =>
        \A c \in CallIds : \A i \in 1..Len(MftEntries(c)) :
            /\ MftEntries(c)[i].fullPath = <<"c">> \o MftSuffix
            /\ MftEntries(c)[i].fullPath = getHandleCalls[c].volumeLetter \o MftSuffix

MftEntryEnqueuedForC ==
    /\ exportList = <<ReqCMft>>
    /\ calls # <<>>
    /\ Len(MftEntries(1)) = 1

StartsWithLetterColon(path) ==
    /\ Len(path) >= 2
    /\ IsLetterChar(path[1])
    /\ path[2] = ":"

SameVolume(a, b) == LowerChar(a) = LowerChar(b)

\* the first request whose path starts with the letter of volume v
FirstRequestOf(v) ==
    CHOOSE i \in 1..Len(exportList) :
        /\ SameVolume(exportList[i].FullPath[1], v[1])
        /\ \A j \in 1..(i - 1) : ~SameVolume(exportList[j].FullPath[1], v[1])

\* C7: when every (expanded) full path starts with a letter and ':',
\* identifyVolumesOfInterest returns no error, and its result holds each
\* volume letter of the list exactly once, upper and lower case counting as
\* the same volume, in order of first appearance.
EachVolumeOnce ==
    ( /\ pc \notin {"resolveEnv", "identify"}
      /\ err.op # "resolveEnv"
      /\ \A i \in 1..Len(exportList) : StartsWithLetterColon(exportList[i].FullPath) )
    =>
      /\ err.op # "identifyVolumesOfInterest"
      /\ \A i \in 1..Len(exportList) :
            Cardinality({ j \in 1..Len(volumesOfInterest) :
                            /\ Len(volumesOfInterest[j]) = 1
                            /\ SameVolume(volumesOfInterest[j][1], exportList[i].FullPath[1]) }) = 1
      /\ \A j \in 1..Len(volumesOfInterest) :
            \E i \in 1..Len(exportList) :
                SameVolume(volumesOfInterest[j][1], exportList[i].FullPath[1])
      /\ \A j, k \in 1..Len(volumesOfInterest) :
            j < k => FirstRequestOf(volumesOfInterest[j]) < FirstRequestOf(volumesOfInterest[k])

SameLetterInBothCases ==
    /\ pc = "setupSearchTerms"
    /\ Len(exportList) = 2
    /\ exportList[1].FullPath[1] = "C"
    /\ exportList[2].FullPath[1] = "c"
    /\ volumesOfInterest = << <<"c">> >>

\* C8: a failed environment-variable expansion never makes Collect return
\* an error.
ExpansionFailureNotFatal ==
    ~(Returned /\ err.op = "resolveEnv")

\* C9: once GetHandle has failed for a letter, that call is the last
\* GetVolumeHandler call, getFiles has run only for the volumes before it,
\* and Collect has returned an error naming the letter.
GetHandleFailureStopsCollect ==
    \A k \in 1..Len(getHandleCalls) :
        getHandleCalls[k].outcome = "GetHandle" =>
            /\ k = Len(getHandleCalls)
            /\ getHandleCalls[k].volumeLetter = volumesOfInterest[k]
            /\ Len(calls) = k - 1
            /\ \A c \in CallIds : calls[c].volume = volumesOfInterest[c]
            /\ handleOpen = { volumesOfInterest[c] : c \in CallIds }
            /\ Returned
            /\ err.op = "GetVolumeHandler"
            /\ err.arg = volumesOfInterest[k]

GetHandleFailsOnSecondVolume ==
    /\ Returned
    /\ Len(getHandleCalls) = 2
    /\ getHandleCalls[2].outcome = "GetHandle"
    /\ Len(calls) = 1

\* C10: every confirmed-file entry stems from one apiFileReader call for
\* that file, and carries the raw reader exactly when that call failed; a
\* failed call stops neither the later files nor makes getFiles or Collect
\* return an error.
DualStrategyPerFile ==
    /\ \A c \in CallIds :
          /\ Len(FileEntries(c)) = Len(calls[c].apiCalls)
          /\ \A i \in 1..Len(FileEntries(c)) :
                /\ FileEntries(c)[i].fullPath = calls[c].apiCalls[i].file
                /\ FileEntries(c)[i].reader = "raw" <=> calls[c].apiCalls[i].failed
                /\ FileEntries(c)[i].reader = "api" <=> ~calls[c].apiCalls[i].failed
          /\ (calls[c].closed /\ c = cur) =>
                Paths(FileEntries(c)) = foundFiles
    /\ pc = "wait" => err = Nil
    /\ (Returned /\ vi > Len(volumesOfInterest) /\ volumesOfInterest # <<>>) => err = Nil

ApiFailureThenNextFileEnqueued ==
    /\ Returned
    /\ err = Nil
    /\ calls # <<>>
    /\ Len(calls[1].apiCalls) = 2
    /\ calls[1].apiCalls[1].failed
    /\ Len(calls[1].written) = 2

\* the tee of call c was installed: its MFT entry is in the queue
TeeOf(c) == MftEntries(c) # <<>>

\* findPossibleMatches of call c has returned
WalkReturned(c) == c < cur \/ pc \notin {"tee", "walk"}

\* C11: for a call that installed the tee, once findPossibleMatches has
\* returned, with or without an error, and getFiles has gone on to close
\* the queue or to return, the write end of the pipe has been closed
\* exactly once; it is never closed more than once, nor before the walk
\* has returned.
PipeClosedOnceAfterWalk ==
    \A c \in CallIds :
        /\ calls[c].pipeCloses <= 1
        /\ calls[c].pipeClosed => (TeeOf(c) /\ WalkReturned(c))
        /\ (TeeOf(c) /\ (calls[c].closed \/ Returned)) =>
              (calls[c].pipeClosed /\ calls[c].pipeCloses = 1)

Chunks(n) == [i \in 1..n |-> i]

\* C12: when the pipe of a call is closed, the chunks delivered to the
\* tree builder and the chunks the consumer has read from the pipe are the
\* same sequence, it is the whole MFT, and each chunk was read from the raw
\* reader once; before that the consumer's copy is a prefix of the
\* builder's.
TeeCopiesMftOnce ==
    \A c \in CallIds :
        /\ \A i \in 1..Len(calls[c].pipeOut) :
              i <= Len(calls[c].treeIn) /\ calls[c].pipeOut[i] = calls[c].treeIn[i]
        /\ \A i, j \in 1..Len(calls[c].treeIn) :
              i # j => calls[c].treeIn[i] # calls[c].treeIn[j]
        /\ calls[c].pipeClosed =>
              /\ calls[c].pipeOut = calls[c].treeIn
              /\ calls[c].treeIn = Chunks(MftChunks)

MftCopiedInFull ==
    /\ calls # <<>>
    /\ calls[1].pipeClosed
    /\ Len(calls[1].pipeOut) = MftChunks
    /\ Len(calls[1].written) >= 1
    /\ calls[1].written[1].reader = "pipe"

\* C14: no failure is swallowed: a failed Seek back to the MFT offset and
\* a failed apiFileReader call are each written to the log (neither is
\* returned to the caller).
NoErrorSwallowed ==
    \A c \in CallIds :
        /\ calls[c].seekFailed => "Seek" \in calls[c].reported
        /\ \A i \in 1..Len(calls[c].apiCalls) :
              calls[c].apiCalls[i].failed => "apiFileReader" \in calls[c].reported

\* the consumers that were started and have not finished
LiveConsumers == { c \in CallIds : calls[c].consumer # "done" }

\* C15: at any moment at most one consumer is live.
AtMostOneLiveConsumer == Cardinality(LiveConsumers) <= 1

SecondConsumerLiveAfterFirst ==
    /\ Len(calls) = 2
    /\ calls[1].consumer = "done"
    /\ calls[2].consumer = "copying"

\* setupSearchTerms has returned the terms to Collect
TermsSet == vi >= 1

HasMftTerm(terms) == \E i \in 1..Len(terms) : IsMftTerm(terms[i])

\* C17: the searchTerms slice held by Collect keeps the elements
\* setupSearchTerms returned, in the same positions, across every getFiles
\* call.
SearchTermsUnchanged ==
    TermsSet => searchTerms = setupSearchTerms(exportList)

\* C18: when the search terms contain a "$mft" term, every volume whose
\* queue has been closed got exactly one MFT entry, named after its letter
\* and enqueued before every confirmed-file entry.
EveryVolumeGetsMftEntry ==
    (TermsSet /\ HasMftTerm(setupSearchTerms(exportList))) =>
        \A c \in CallIds :
            calls[c].closed =>
                /\ Len(MftEntries(c)) = 1
                /\ IsMftEntry(calls[c].enqueued[1])
                /\ calls[c].enqueued[1].fullPath = calls[c].volume \o MftSuffix

\* the text before the first ':' of a path
BeforeFirstColon(path) == TakeNonColons(path)

BadVolumePrefix(path) ==
    LET prefix == BeforeFirstColon(path)
    IN  \/ prefix = <<>>
        \/ Len(prefix) > 1
        \/ ~IsLetterChar(prefix[1])

\* C20: when the text before the first ':' of some request's full path is
\* empty, longer than one byte or not a letter, identifyVolumesOfInterest
\* returns no volumes and an error, and Collect returns an error without
\* opening a volume handle or starting a consumer.
IdentifyAllOrNothing ==
    ( /\ pc \notin {"resolveEnv", "identify"}
      /\ err.op # "resolveEnv"
      /\ \E i \in 1..Len(exportList) : BadVolumePrefix(exportList[i].FullPath) )
    =>
      /\ Returned
      /\ err.op = "identifyVolumesOfInterest"
      /\ volumesOfInterest = <<>>
      /\ getHandleCalls = <<>>
      /\ handleOpen = {}
      /\ calls = <<>>
----------------------------------------------------------------------------
(* main, lines 192-326: the export list built from the gather string.  A
   path is "%SYSTEMDRIVE%", ":" and the rest of the literal as one token. *)

\* longest gather string
MaxGather == 3

GatherChars == {"a", "m", "r", "u", "e", "w"}

GatherStrings == UNION { [1..n -> GatherChars] : n \in 0..MaxGather }

FileToExport(path, isPathRegex, name, isNameRegex) ==
    [FullPath |-> path, IsFullPathRegex |-> isPathRegex,
     FileName |-> name, IsFileNameRegex |-> isNameRegex]

\* lines 214-219 and 259-264
ReqMft ==
    FileToExport(<<"%SYSTEMDRIVE%", ":", "\\", "$", "M", "F", "T">>,
        FALSE, <<"$", "M", "F", "T">>, FALSE)

\* lines 220-225 and 267-272
ReqSystem ==
    FileToExport(<<"%SYSTEMDRIVE%", ":", "\\Windows\\System32\\config\\SYSTEM">>,
        FALSE, <<"SYSTEM">>, FALSE)

\* lines 226-231 and 273-278
ReqSoftware ==
    FileToExport(<<"%SYSTEMDRIVE%", ":", "\\Windows\\System32\\config\\SOFTWARE">>,
        FALSE, <<"SOFTWARE">>, FALSE)

\* lines 232-237, the event log request of 'a'
ReqEvtxAll ==
    FileToExport(<<"%SYSTEMDRIVE%", ":", "\\\\Windows\\\\System32\\\\winevt\\\\Logs\\\\.*\\.evtx$">>,
        TRUE, <<".*\\.evtx$">>, TRUE)

\* lines 295-300, the event log request of 'e'
ReqEvtx ==
    FileToExport(<<"%SYSTEMDRIVE%", ":", "\\\\Windows\\\\System32\\\\winevt\\\\Logs\\\\.*\\\\.evtx$">>,
        TRUE, <<".*\\\\.evtx$">>, TRUE)

\* lines 238-243 and 281-286
ReqNtuser ==
    FileToExport(<<"%SYSTEMDRIVE%", ":", "\\\\users\\\\([^\\\\]+)\\\\ntuser.dat">>,
        TRUE, <<"ntuser.dat">>, FALSE)

\* lines 244-249 and 287-292
ReqUsrclass ==
    FileToExport(<<"%SYSTEMDRIVE%", ":", "\\\\Users\\\\([^\\\\]+)\\\\AppData\\\\Local\\\\Microsoft\\\\Windows\\\\usrclass.dat">>,
        TRUE, <<"usrclass.dat">>, FALSE)

\* lines 250-255 and 303-308
ReqWebCache ==
    FileToExport(<<"%SYSTEMDRIVE%", ":", "\\\\Users\\\\([^\\\\]+)\\\\AppData\\\\Local\\\\Microsoft\\\\Windows\\\\WebCache\\\\WebCacheV01.dat">>,
        TRUE, <<"WebCacheV01.dat">>, FALSE)

\* strings.Contains(s, ch) for a one-character ch
Contains(s, ch) == \E i \in 1..Len(s) : s[i] = ch

\* the appends of one branch of lines 258-309
Part(gather, ch, requests) == IF Contains(gather, ch) THEN requests ELSE <<>>

\* lines 211-310
BuildExportList(gather) ==
    IF Contains(gather, "a")
    THEN <<ReqMft, ReqSystem, ReqSoftware, ReqEvtxAll, ReqNtuser, ReqUsrclass, ReqWebCache>>
    ELSE Part(gather, "m", <<ReqMft>>)
         \o Part(gather, "r", <<ReqSystem, ReqSoftware>>)
         \o Part(gather, "u", <<ReqNtuser, ReqUsrclass>>)
         \o Part(gather, "e", <<ReqEvtx>>)
         \o Part(gather, "w", <<ReqWebCache>>)

InitMain ==
    /\ opts \in GatherStrings
    /\ exportList = <<>>
    /\ pc = "main"
    /\ err = Nil
    /\ volumesOfInterest = <<>>
    /\ vi = 0
    /\ searchTerms = <<>>
    /\ listOfSearchKeywords = <<>>
    /\ areWeCopyingTheMFT = FALSE
    /\ foundFiles = <<>>
    /\ fileIdx = 0
    /\ walkPos = 0
    /\ handleOpen = {}
    /\ getHandleCalls = <<>>
    /\ calls = <<>>

\* main builds the export list and is about to call Collect
BuildList ==
    /\ pc = "main"
    /\ exportList' = BuildExportList(opts)
    /\ pc' = "resolveEnv"
    /\ UNCHANGED <<opts, err, volumesOfInterest, vi, searchTerms,
                   listOfSearchKeywords, areWeCopyingTheMFT, foundFiles,
                   fileIdx, walkPos, handleOpen, getHandleCalls, calls>>

NextMain == BuildList

SpecMain == InitMain /\ [][NextMain]_vars

Elements(list) == { list[i] : i \in 1..Len(list) }

\* C16: the export list main builds for a gather string containing 'a'
\* holds the same requests as the list it builds for "mruew".
AllEqualsMruew ==
    (pc = "resolveEnv" /\ Contains(opts, "a")) =>
        Elements(exportList) = Elements(BuildExportList(<<"m", "r", "u", "e", "w">>))
----------------------------------------------------------------------------
(* A volume with more confirmed files than the channel holds *)

\* more files than the channel has room for
ManyFiles == QueueCap + 2

InitMany ==
    /\ opts = NoOpts
    /\ exportList \in {<<ReqCMft>>, <<ReqA>>}
    /\ pc = "resolveEnv"
    /\ err = Nil
    /\ volumesOfInterest = <<>>
    /\ vi = 0
    /\ searchTerms = <<>>
    /\ listOfSearchKeywords = <<>>
    /\ areWeCopyingTheMFT = FALSE
    /\ foundFiles = <<>>
    /\ fileIdx = 0
    /\ walkPos = 0
    /\ handleOpen = {}
    /\ getHandleCalls = <<>>
    /\ calls = <<>>

\* line 137: confirmFoundFiles returns ManyFiles files
ConfirmManyFiles == ConfirmFoundFilesFrom({FilesOn(calls[cur].volume, ManyFiles)})

\* lines 143-158, one iteration; apiFileReader fails for every other file
EnqueueOneOfMany == EnqueueFileWith({fileIdx % 2 = 1})

\* the steps of the goroutine that runs Collect and getFiles
ProducerMany ==
    \/ ResolveEnv
    \/ IdentifyVolumes
    \/ SetupSearchTerms
    \/ GetVolumeHandler
    \/ CollectReturn
    \/ GetFilesStart
    \/ ParseMFTRecord0
    \/ RemoveMft
    \/ EnqueueMft
    \/ WalkRead
    \/ WalkFail
    \/ WalkDone
    \/ ClosePipe
    \/ ConfirmManyFiles
    \/ EnqueueOneOfMany
    \/ CloseQueue
    \/ WaitAndReturn

\* the steps of the consumer goroutines
ConsumerStep ==
    \/ \E c \in 1..Len(calls) : ConsumerReceive(c)
    \/ \E c \in 1..Len(calls) : ConsumerReadPipe(c)
    \/ \E c \in 1..Len(calls) : ConsumerFinishEntry(c)
    \/ \E c \in 1..Len(calls) : ConsumerDone(c)

NextMany == ProducerMany \/ ConsumerStep

SpecMany == InitMany /\ [][NextMany]_vars

\* every runnable goroutine is scheduled, every device read returns, and
\* the consumer keeps receiving and reading
FairSpecMany == SpecMany /\ WF_vars(ProducerMany) /\ WF_vars(ConsumerStep)

\* C13: the channel of a getFiles call never buffers more than 100
\* entries, and a send completes only from a state in which fewer than 100
\* are buffered: with 100 in flight it waits for the consumer to receive.
QueueNeverExceedsCap ==
    [][\A c \in CallIds :
        /\ Len(calls[c].fileReaders) <= 100
        /\ Len(calls'[c].enqueued) > Len(calls[c].enqueued) =>
              Len(calls[c].fileReaders) < 100]_vars

ProducerBlockedOnFullQueue ==
    /\ pc = "fileLoop"
    /\ ~LoopDone(fileIdx, foundFiles)
    /\ Len(calls[cur].fileReaders) = 100

\* C19: a getFiles call that copies the MFT returns, also when more than
\* 100 confirmed files follow the MFT entry.
TeeCallTerminates ==
    (pc = "tee") ~> (pc \in {"loop", "returned"})

TeeCallReturnedAfterManyFiles ==
    /\ pc = "loop"
    /\ vi = 2
    /\ areWeCopyingTheMFT
    /\ Len(calls[1].written) = ManyFiles + 1
    /\ calls[1].consumer = "done"
====
